---------------------------- MODULE Spec2Model ----------------------------
(***************************************************************************)
(* A model of the risklab analytics engine (src/risklab): the portfolio    *)
(* allocator, the risk metrics, the VaR family and the inverse-normal      *)
(* approximation.  The engine is a collection of pure functions, so the    *)
(* state is one call: the function called (fn), its inputs (args), what   *)
(* it returned or raised (ret) and whether it has run yet (pc).            *)
(*                                                                         *)
(* Numbers are exact rationals [n, d] with d > 0 in lowest terms; a        *)
(* denominator of 0 encodes the non-finite floats: 0/0 is NaN (pandas'     *)
(* missing value), 1/0 is +inf and -1/0 is -inf.  Rounding of IEEE doubles *)
(* is not modelled.                                                        *)
(***************************************************************************)
EXTENDS Integers, Sequences, FiniteSets, TLC

VARIABLES fn, args, ret, pc

vars == <<fn, args, ret, pc>>

-----------------------------------------------------------------------------
(* Bounds of the model *)

\* the calendar: days are numbered 1..MaxDay, a month is DaysPerMonth
\* consecutive days and a quarter is MonthsPerQuarter consecutive months
MaxDay == 4
DaysPerMonth == 2
MonthsPerQuarter == 2
\* the longest return series handed to a risk metric
MaxLen == 4

-----------------------------------------------------------------------------
(* Exact arithmetic with float-like non-finite values *)

Abs(x) == IF x < 0 THEN -x ELSE x

Sgn(x) == IF x < 0 THEN -1 ELSE IF x > 0 THEN 1 ELSE 0

RECURSIVE GCD(_, _)
GCD(a, b) == IF b = 0 THEN a ELSE GCD(b, a % b)

\* the rational n/d, d # 0, in lowest terms with a positive denominator
Norm(n, d) ==
    LET g == GCD(Abs(n), Abs(d))
    IN  [n |-> Sgn(d) * (n \div g), d |-> Abs(d) \div g]

Int2R(k) == [n |-> k, d |-> 1]

NaN == [n |-> 0, d |-> 0]

IsNaN(x) == x.d = 0 /\ x.n = 0
IsFinite(x) == x.d > 0
IsInf(x) == x.d = 0 /\ x.n # 0

RNeg(a) == [n |-> -a.n, d |-> a.d]

RAdd(a, b) ==
    IF IsFinite(a) /\ IsFinite(b) THEN
        LET g == GCD(a.d, b.d)
        IN  Norm(a.n * (b.d \div g) + b.n * (a.d \div g), (a.d \div g) * b.d)
    ELSE IF IsNaN(a) \/ IsNaN(b) THEN NaN
    ELSE IF IsInf(a) /\ IsInf(b) /\ a.n # b.n THEN NaN
    ELSE IF IsInf(a) THEN a ELSE b

RSub(a, b) == RAdd(a, RNeg(b))

RMul(a, b) ==
    IF IsFinite(a) /\ IsFinite(b) THEN
        LET g1 == GCD(Abs(a.n), b.d)
            g2 == GCD(Abs(b.n), a.d)
        IN  Norm((a.n \div g1) * (b.n \div g2), (a.d \div g2) * (b.d \div g1))
    ELSE IF IsNaN(a) \/ IsNaN(b) THEN NaN
    ELSE IF a.n = 0 \/ b.n = 0 THEN NaN
    ELSE [n |-> Sgn(a.n) * Sgn(b.n), d |-> 0]

\* float division: x/0 is +-inf, 0/0 is NaN
RDiv(a, b) ==
    IF IsNaN(a) \/ IsNaN(b) THEN NaN
    ELSE IF IsFinite(a) /\ IsFinite(b) THEN
        IF b.n = 0 THEN [n |-> Sgn(a.n), d |-> 0]
        ELSE RMul(a, Norm(b.d, b.n))
    ELSE IF IsInf(a) /\ IsInf(b) THEN NaN
    ELSE IF IsInf(a) THEN [n |-> a.n * (IF b.n < 0 THEN -1 ELSE 1), d |-> 0]
    ELSE Int2R(0)

\* comparisons of floats: every comparison with NaN is false
RLt(a, b) ==
    /\ ~IsNaN(a) /\ ~IsNaN(b)
    /\ IF IsFinite(a) /\ IsFinite(b) THEN a.n * b.d < b.n * a.d
       ELSE IF IsInf(a) /\ IsInf(b) THEN a.n < b.n
       ELSE IF IsInf(a) THEN a.n < 0 ELSE b.n > 0

RLe(a, b) == ~IsNaN(a) /\ ~IsNaN(b) /\ (a = b \/ RLt(a, b))

One == Int2R(1)
Zero == Int2R(0)

\* sum and product of f over the finite set S (no NaN skipping)
RECURSIVE SumOver(_, _)
SumOver(f, S) ==
    IF S = {} THEN Zero
    ELSE LET x == CHOOSE y \in S : TRUE
         IN  RAdd(f[x], SumOver(f, S \ {x}))

RECURSIVE ProdOver(_, _)
ProdOver(f, S) ==
    IF S = {} THEN One
    ELSE LET x == CHOOSE y \in S : TRUE
         IN  RMul(f[x], ProdOver(f, S \ {x}))

\* pandas reductions skip missing values (skipna=True)
NotNA(f, S) == {x \in S : ~IsNaN(f[x])}
SumSkipNA(f, S) == SumOver(f, NotNA(f, S))
ProdSkipNA(f, S) == ProdOver(f, NotNA(f, S))

-----------------------------------------------------------------------------
(* portfolio.py *)

\* A pandas Series is a function from its index to numbers; a DataFrame is
\* [index, columns, cell], cell[d][c] the value at row d, column c.

EmptySeries == [d \in {} |-> Zero]

FrameEmpty(df) == df.index = {} \/ df.columns = {}

normalize_weights(w) ==
    LET total == SumSkipNA(w, DOMAIN w)
    IN  IF total # Zero THEN [k \in DOMAIN w |-> RDiv(w[k], total)] ELSE w

_to_resample_rule(rebalance) ==
    IF rebalance = "None" THEN "None"
    ELSE IF rebalance = "M" THEN "ME"
    ELSE IF rebalance = "Q" THEN "QE"
    ELSE rebalance


\* the calendar
MonthOf(d) == (d - 1) \div DaysPerMonth
QuarterOf(d) == MonthOf(d) \div MonthsPerQuarter

\* pandas resample: the bin a date falls in, and the label the bin is given.
\* "ME" and "QE" bins are labelled by their last day (label='right'), a
\* custom start-anchored alias such as "MS" by its first day (label='left').
PeriodOf(rule, d) == IF rule = "QE" THEN QuarterOf(d) ELSE MonthOf(d)

PeriodLabel(rule, p) ==
    IF rule = "ME" THEN (p + 1) * DaysPerMonth
    ELSE IF rule = "QE" THEN (p + 1) * DaysPerMonth * MonthsPerQuarter
    ELSE p * DaysPerMonth + 1

SetMin(S) == CHOOSE x \in S : \A y \in S : x <= y
SetMax(S) == CHOOSE x \in S : \A y \in S : y <= x

\* (1.0 + R).resample(rule).apply(lambda df: df.prod() - 1.0): one row per
\* bin from the first date's bin to the last date's, indexed by bin label
ResampleCompound(R, cols, rule) ==
    LET first == PeriodOf(rule, SetMin(DOMAIN R))
        last == PeriodOf(rule, SetMax(DOMAIN R))
        rows(p) == {d \in DOMAIN R : PeriodOf(rule, d) = p}
        gross(c) == [d \in DOMAIN R |-> RAdd(One, R[d][c])]
        labels == {PeriodLabel(rule, p) : p \in first..last}
        binOf(l) == CHOOSE p \in first..last : PeriodLabel(rule, p) = l
    IN  [l \in labels |->
            [c \in cols |-> RSub(ProdSkipNA(gross(c), rows(binOf(l))), One)]]

\* (frame * w.loc[cols]).sum(axis=1)
WeightedRowSum(frame, w, cols) ==
    [i \in DOMAIN frame |->
        SumSkipNA([c \in cols |-> RMul(frame[i][c], w[c])], cols)]

\* series.reindex(index, method="ffill"): the value at the last label that
\* is not after the date, missing when there is none
ReindexFfill(series, index) ==
    [d \in index |->
        LET before == {l \in DOMAIN series : l <= d}
        IN  IF before = {} THEN NaN ELSE series[SetMax(before)]]

\* (1.0 + R).cumprod(): missing cells stay missing and are skipped
CumProd(R, cols) ==
    [d \in DOMAIN R |->
        [c \in cols |->
            IF IsNaN(R[d][c]) THEN NaN
            ELSE ProdSkipNA([e \in DOMAIN R |-> RAdd(One, R[e][c])],
                            {e \in DOMAIN R : e <= d})]]

\* series.pct_change(): the first entry has no predecessor
PctChange(series) ==
    [d \in DOMAIN series |->
        LET earlier == {e \in DOMAIN series : e < d}
        IN  IF earlier = {} THEN NaN
            ELSE RSub(RDiv(series[d], series[SetMax(earlier)]), One)]

DropNA(series) == [d \in NotNA(series, DOMAIN series) |-> series[d]]

allocate_static(returns, weights, rebalance) ==
    IF FrameEmpty(returns) THEN EmptySeries
    ELSE
    LET w == normalize_weights(weights)
        cols == {c \in DOMAIN w : c \in returns.columns}
        R == [d \in returns.index |-> [c \in cols |-> returns.cell[d][c]]]
        rule == _to_resample_rule(rebalance)
    IN  IF cols = {} THEN EmptySeries
        ELSE IF rule = "None" THEN
            LET wealth == CumProd(R, cols)
                port_wealth == WeightedRowSum(wealth, w, cols)
            IN  DropNA(PctChange(port_wealth))
        ELSE
            LET grouped == ResampleCompound(R, cols, rule)
                port_periodic == WeightedRowSum(grouped, w, cols)
            IN  ReindexFfill(port_periodic, DOMAIN R)

-----------------------------------------------------------------------------
(* What a call gives back: a value, or an exception raised *)

Value(x) == [raised |-> "none", v |-> x]
Raises(e) == [raised |-> e, v |-> NaN]

\* the "undefined" sentinel is a returned NaN
Undefined == Value(NaN)

-----------------------------------------------------------------------------
(* Return series of the metrics: sequences of numbers, NaN where missing *)

RECURSIVE SeqSum(_)
SeqSum(s) == IF s = <<>> THEN Zero ELSE RAdd(Head(s), SeqSum(Tail(s)))

RECURSIVE SeqProd(_)
SeqProd(s) == IF s = <<>> THEN One ELSE RMul(Head(s), SeqProd(Tail(s)))

\* rets.dropna()
dropna(s) == SelectSeq(s, LAMBDA x : ~IsNaN(x))

\* pandas mean(): over the values that are not missing, NaN when none
Mean(s) == RDiv(SeqSum(dropna(s)), Int2R(Len(dropna(s))))

\* the square of pandas std(ddof=0): the population variance of the values
\* that are not missing, NaN when there is none
Var0(s) ==
    LET m == Mean(s)
        r == dropna(s)
    IN  Mean([i \in 1..Len(r) |-> RMul(RSub(r[i], m), RSub(r[i], m))])

\* A real c * sqrt(r), r >= 0, is kept as its signed square sign(c)*c*c*r,
\* a strictly increasing function of it: two such reals are equal exactly
\* when their signed squares are.
SignedSquare(x) == RMul(Int2R(Sgn(x.n)), RMul(x, x))

Surd(ssq) == IF IsNaN(ssq) THEN NaN ELSE [ssq |-> ssq]

-----------------------------------------------------------------------------
(* metrics.py *)

PeriodsPerYear == 252

\* (1 + rets).prod() ** (periods_per_year / len(rets)) - 1, kept as the
\* base and the exponent's two parts: base ** (periods / root) - 1.  The
\* division periods_per_year / len(rets) is Python's and raises on 0.
annualize_return(rets, periods_per_year) ==
    LET base == SeqProd(dropna([i \in 1..Len(rets) |-> RAdd(One, rets[i])]))
    IN  IF Len(rets) = 0 THEN Raises("ZeroDivisionError")
        ELSE Value([base |-> base, periods |-> periods_per_year,
                    root |-> Len(rets)])

\* rets.std(ddof=0) * sqrt(periods_per_year)
annualize_vol(rets, periods_per_year) ==
    Value(Surd(RMul(Var0(rets), Int2R(periods_per_year))))

\* excess.mean() * periods_per_year / vol, NaN when vol == 0
SharpeRatio(excess, deviations, periods_per_year) ==
    LET vol2 == RMul(Var0(deviations), Int2R(periods_per_year))
        num == RMul(Mean(excess), Int2R(periods_per_year))
    IN  IF vol2 = Zero THEN Undefined
        ELSE Value(Surd(RDiv(SignedSquare(num), vol2)))

\* rets - rf/periods_per_year
Excess(rets, rf, periods_per_year) ==
    [i \in 1..Len(rets) |-> RSub(rets[i], RDiv(rf, Int2R(periods_per_year)))]

sharpe(rets, rf, periods_per_year) ==
    LET excess == Excess(rets, rf, periods_per_year)
    IN  SharpeRatio(excess, excess, periods_per_year)

sortino(rets, rf, periods_per_year) ==
    LET excess == Excess(rets, rf, periods_per_year)
        downside == SelectSeq(excess, LAMBDA x : RLt(x, Zero))
    IN  SharpeRatio(excess, downside, periods_per_year)

\* the largest of the values of s[1..i] that are not missing
RECURSIVE CumMax(_, _)
CumMax(s, i) ==
    IF i = 0 THEN NaN
    ELSE LET m == CumMax(s, i - 1)
         IN  IF IsNaN(s[i]) THEN m
             ELSE IF IsNaN(m) \/ RLt(m, s[i]) THEN s[i] ELSE m

\* the smallest of the values of s that are not missing, NaN when none
RECURSIVE SeqMin(_)
SeqMin(s) ==
    IF s = <<>> THEN NaN
    ELSE LET m == SeqMin(Tail(s))
         IN  IF IsNaN(Head(s)) THEN m
             ELSE IF IsNaN(m) \/ RLt(Head(s), m) THEN Head(s) ELSE m

\* wealth = (1 + rets).cumprod(); peak = wealth.cummax(); wealth/peak - 1
drawdown(rets) ==
    LET gross == [i \in 1..Len(rets) |-> RAdd(One, rets[i])]
        wealth == [i \in 1..Len(rets) |->
                      IF IsNaN(gross[i]) THEN NaN
                      ELSE SeqProd(dropna(SubSeq(gross, 1, i)))]
    IN  [i \in 1..Len(rets) |->
            IF IsNaN(wealth[i]) THEN NaN
            ELSE RSub(RDiv(wealth[i], CumMax(wealth, i)), One)]

max_drawdown(rets) == Value(SeqMin(drawdown(rets)))

\* (rets > 0).mean(): the comparison is False on a missing value, and the
\* mean is over every entry
hit_rate(rets) ==
    Value(RDiv(Int2R(Len(SelectSeq(rets, LAMBDA x : RLt(Zero, x)))),
               Int2R(Len(rets))))

-----------------------------------------------------------------------------
(* var.py *)

\* The value of _norm_ppf is kept as the branch that computed it, a sign
\* and the argument x of the branch's rational polynomial:
\*   "boundary"  sign * infinity
\*   "tail"      sign * C(q)/D(q) with q = sqrt(-2 ln x)
\*   "central"   sign * A(x*x)*x / B(x*x) with x = |p - 0.5|; the code
\*               computes A(r)*q/B(r) with r = q*q, which is odd in q, so
\*               sign is the sign of q (0 when q = 0: the value is 0)
\* Equal records are equal floats; the coefficients a, b, c, d are not
\* evaluated.
plow == Norm(2425, 100000)
\* mutant of phigh: the upper threshold typed as a rounded literal instead of
\* being derived from plow
phigh_rounded_literal == Norm(9757, 10000)

phigh == RSub(One, plow)

\* mutant of _norm_ppf: the tail tests include the thresholds
_norm_ppf_closed_tails(p) ==
    IF RLe(p, Zero) THEN [branch |-> "boundary", sign |-> -1, x |-> Zero]
    ELSE IF RLe(One, p) THEN [branch |-> "boundary", sign |-> 1, x |-> Zero]
    ELSE IF RLe(p, plow) THEN [branch |-> "tail", sign |-> 1, x |-> p]
    ELSE IF RLe(phigh, p) THEN
        [branch |-> "tail", sign |-> -1, x |-> RSub(One, p)]
    ELSE LET q == RSub(p, Norm(1, 2))
         IN  [branch |-> "central", sign |-> Sgn(q.n),
              x |-> [n |-> Abs(q.n), d |-> q.d]]

_norm_ppf(p) ==
    IF RLe(p, Zero) THEN [branch |-> "boundary", sign |-> -1, x |-> Zero]
    ELSE IF RLe(One, p) THEN [branch |-> "boundary", sign |-> 1, x |-> Zero]
    ELSE IF RLt(p, plow) THEN [branch |-> "tail", sign |-> 1, x |-> p]
    ELSE IF RLt(phigh, p) THEN
        [branch |-> "tail", sign |-> -1, x |-> RSub(One, p)]
    ELSE LET q == RSub(p, Norm(1, 2))
         IN  [branch |-> "central", sign |-> Sgn(q.n),
              x |-> [n |-> Abs(q.n), d |-> q.d]]

\* the sequence in ascending order
RECURSIVE Sorted(_)
Sorted(s) ==
    IF s = <<>> THEN <<>>
    ELSE LET i == CHOOSE j \in 1..Len(s) :
                     /\ \A k \in 1..Len(s) : RLe(s[j], s[k])
                     /\ \A k \in 1..(j - 1) : s[k] # s[j]
         IN  <<s[i]>> \o Sorted(SubSeq(s, 1, i - 1) \o SubSeq(s, i + 1, Len(s)))

\* np.quantile(r, q), method 'linear': between the order statistics around
\* the virtual index (n - 1) * q.  On an empty array numpy raises IndexError
\* (1.22 and later) or returns nan (before), so both are outcomes.
Quantile(r, q) ==
    LET x == Sorted(r)
        h == RMul(Int2R(Len(r) - 1), q)
        lo == h.n \div h.d
        g == RSub(h, Int2R(lo))
    IN  IF lo + 1 >= Len(r) THEN x[Len(r)]
        ELSE RAdd(x[lo + 1], RMul(g, RSub(x[lo + 2], x[lo + 1])))

var_historical(rets, alpha) ==
    LET r == dropna(rets)
    IN  IF r = <<>> THEN {Raises("IndexError"), Undefined}
        ELSE {Value(Quantile(r, RSub(One, alpha)))}

\* q = var_historical(rets, alpha); tail = rets.dropna()[rets.dropna() <= q]
\* mutant of cvar_tail: the tail taken on the wrong side of the quantile
cvar_tail_above(rets, q) == SelectSeq(dropna(rets), LAMBDA x : RLe(q, x))

cvar_tail(rets, q) == SelectSeq(dropna(rets), LAMBDA x : RLe(x, q))

cvar_historical(rets, alpha) ==
    {IF q.raised # "none" THEN q
     ELSE IF Len(cvar_tail(rets, q.v)) # 0
          THEN Value(Mean(cvar_tail(rets, q.v)))
          ELSE Undefined :
        q \in var_historical(rets, alpha)}

\* mu + sigma * z_cf, with z_cf a cubic in z = _norm_ppf(1 - alpha), kept as
\* mu, sigma squared, z and the four coefficients of z_cf; the coefficients
\* of z^0 and z^2 are multiples of the skewness and kept as signed squares.
\* NaN in any part makes the float result NaN.
MuSigmaZ(mu, sigma2, z, c0, c1, c2, c3) ==
    IF \E x \in {mu, sigma2, c0, c1, c2, c3} : IsNaN(x) THEN NaN
    ELSE [mu |-> mu, sigma2 |-> sigma2, z |-> z,
          c0 |-> c0, c1 |-> c1, c2 |-> c2, c3 |-> c3]

var_parametric_normal(rets, alpha) ==
    LET r == dropna(rets)
        mu == Mean(r)
        sigma2 == Var0(r)
        z == _norm_ppf(RSub(One, alpha))
    IN  Value(MuSigmaZ(mu, sigma2, z, Zero, One, Zero, Zero))

\* sum of the k-th powers of the deviations from the mean
RECURSIVE RPow(_, _)
RPow(x, k) == IF k = 0 THEN One ELSE RMul(x, RPow(x, k - 1))

Moment(r, k) == SeqSum([i \in 1..Len(r) |-> RPow(RSub(r[i], Mean(r)), k)])

\* pandas Series.skew() (nanops.nanskew), as a signed square:
\* count*sqrt(count-1)/(count-2) * m3/m2**1.5, 0 when m2 == 0, NaN when
\* count < 3
skew(r) ==
    LET count == Len(dropna(r))
        m2 == Moment(dropna(r), 2)
        m3 == Moment(dropna(r), 3)
    IN  IF count < 3 THEN NaN
        ELSE IF m2 = Zero THEN Zero
        ELSE RMul(RDiv(Int2R(count * count * (count - 1)),
                       Int2R((count - 2) * (count - 2))),
                  RDiv(SignedSquare(m3), RPow(m2, 3)))

\* pandas Series.kurt() (nanops.nankurt): NaN when count < 4, 0 when the
\* denominator is 0
kurt(r) ==
    LET count == Len(dropna(r))
        m2 == Moment(dropna(r), 2)
        m4 == Moment(dropna(r), 4)
        adj == RDiv(Int2R(3 * (count - 1) * (count - 1)),
                    Int2R((count - 2) * (count - 3)))
        numerator == RMul(Int2R(count * (count + 1) * (count - 1)), m4)
        denominator == RMul(Int2R((count - 2) * (count - 3)), RMul(m2, m2))
    IN  IF count < 4 THEN NaN
        ELSE IF denominator = Zero THEN Zero
        ELSE RSub(RDiv(numerator, denominator), adj)

\* the adjustment fed with the raw kurtosis k + 3 in place of the excess k
var_cornish_fisher_raw_kurtosis(rets, alpha) ==
    LET r == dropna(rets)
        z == _norm_ppf(RSub(One, alpha))
        s == skew(r)
        k == RAdd(kurt(r), Int2R(3))
        s2 == RMul(Int2R(Sgn(s.n)), s)
        c0 == RNeg(RDiv(s, Int2R(36)))
        c1 == RAdd(RSub(One, RDiv(RMul(Int2R(3), k), Int2R(24))),
                   RDiv(RMul(Int2R(5), s2), Int2R(36)))
        c2 == RDiv(s, Int2R(36))
        c3 == RSub(RDiv(k, Int2R(24)), RDiv(RMul(Int2R(2), s2), Int2R(36)))
    IN  Value(MuSigmaZ(Mean(r), Var0(r), z, c0, c1, c2, c3))

\* z_cf = z + (z**2 - 1)*s/6 + (z**3 - 3*z)*k/24 - (2*z**3 - 5*z)*(s**2)/36
\* collected by powers of z; s2 is s squared
var_cornish_fisher(rets, alpha) ==
    LET r == dropna(rets)
        mu == Mean(r)
        sigma2 == Var0(r)
        z == _norm_ppf(RSub(One, alpha))
        s == skew(r)
        k == kurt(r)
        s2 == RMul(Int2R(Sgn(s.n)), s)
        c0 == RNeg(RDiv(s, Int2R(36)))
        c1 == RAdd(RSub(One, RDiv(RMul(Int2R(3), k), Int2R(24))),
                   RDiv(RMul(Int2R(5), s2), Int2R(36)))
        c2 == RDiv(s, Int2R(36))
        c3 == RSub(RDiv(k, Int2R(24)), RDiv(RMul(Int2R(2), s2), Int2R(36)))
    IN  Value(MuSigmaZ(mu, sigma2, z, c0, c1, c2, c3))

-----------------------------------------------------------------------------
(* Inputs *)

Symbols == {"A", "B"}
WeightKeys == {"A", "B", "C"}
RetVals == {Int2R(0), Int2R(1)}
WeightVals == {Int2R(-1), Int2R(1), Int2R(2)}
Policies == {"None", "M", "Q", "MS"}

\* gap-free daily return matrices: every day from lo to hi is a row
Frames ==
    UNION {UNION {{[index |-> lo..hi, columns |-> cs, cell |-> m] :
                      m \in [lo..hi -> [cs -> RetVals]]} :
                  cs \in SUBSET Symbols} :
           lo \in 1..MaxDay, hi \in 0..MaxDay}

WeightVectors == UNION {[K -> WeightVals] : K \in SUBSET WeightKeys}

\* weight vectors handed to normalize_weights directly: zero entries too
RawWeightVals == WeightVals \cup {Int2R(0)}
RawWeightVectors == UNION {[K -> RawWeightVals] : K \in SUBSET WeightKeys}

\* return series of a risk metric: returns above -100%, NaN where missing
MetricVals == {Norm(-1, 2), Zero, One}
ReturnSeries == UNION {[1..n -> MetricVals \cup {NaN}] : n \in 0..MaxLen}

\* confidence levels, all in (0,1)
Alphas == {Norm(1, 4), Norm(1, 2), Norm(19, 20), Norm(99, 100)}

\* probabilities handed to _norm_ppf: the grid k/PGridDen from just below 0
\* to just above 1, which holds 0, 0.02425, 0.5, 0.97575 and 1
PGridDen == 4000
Probabilities == {Norm(k, PGridDen) : k \in -1..(PGridDen + 1)}

-----------------------------------------------------------------------------
(* A call is drawn at the start (Init, pc = "call"); the action of the     *)
(* called function runs it to completion and records what it returned     *)
(* (pc = "done").                                                          *)

Pending == <<>>

AllocateCalls ==
    {[returns |-> r, weights |-> w, rebalance |-> p] :
        r \in Frames, w \in WeightVectors, p \in Policies}

NormalizeCalls == {[w |-> w] : w \in RawWeightVectors}

AnnualizeCalls ==
    {[rets |-> s, periods_per_year |-> PeriodsPerYear] : s \in ReturnSeries}

RatioCalls ==
    {[rets |-> s, rf |-> Zero, periods_per_year |-> PeriodsPerYear] :
        s \in ReturnSeries}

SeriesCalls == {[rets |-> s] : s \in ReturnSeries}

\* a series that is not constant and has sample skewness 0 and sample excess
\* kurtosis 0 (no shorter series over small integers has both)
MesokurticSeries ==
    <<Int2R(-1), Zero, Zero, Zero, One, One, One, Int2R(2)>>

VarCalls ==
    {[rets |-> s, alpha |-> a] :
        s \in ReturnSeries \cup {MesokurticSeries}, a \in Alphas}

PpfCalls == {[p |-> p] : p \in Probabilities}

Init ==
    /\ pc = "call"
    /\ ret = Pending
    /\ \/ fn = "allocate_static" /\ args \in AllocateCalls
       \/ fn = "normalize_weights" /\ args \in NormalizeCalls
       \/ fn \in {"annualize_return", "annualize_vol"}
             /\ args \in AnnualizeCalls
       \/ fn \in {"sharpe", "sortino"} /\ args \in RatioCalls
       \/ fn \in {"max_drawdown", "hit_rate"} /\ args \in SeriesCalls
       \/ fn \in {"var_historical", "cvar_historical",
                   "var_parametric_normal", "var_cornish_fisher"}
             /\ args \in VarCalls
       \/ fn = "_norm_ppf" /\ args \in PpfCalls

\* the call ends: pc moves to "done", the call itself is kept
Finish == pc' = "done" /\ UNCHANGED <<fn, args>>

Allocate ==
    /\ pc = "call" /\ fn = "allocate_static"
    /\ ret' = allocate_static(args.returns, args.weights, args.rebalance)
    /\ Finish

Normalize ==
    /\ pc = "call" /\ fn = "normalize_weights"
    /\ ret' = normalize_weights(args.w)
    /\ Finish

AnnualizeReturn ==
    /\ pc = "call" /\ fn = "annualize_return"
    /\ ret' = annualize_return(args.rets, args.periods_per_year)
    /\ Finish

AnnualizeVol ==
    /\ pc = "call" /\ fn = "annualize_vol"
    /\ ret' = annualize_vol(args.rets, args.periods_per_year)
    /\ Finish

Sharpe ==
    /\ pc = "call" /\ fn = "sharpe"
    /\ ret' = sharpe(args.rets, args.rf, args.periods_per_year)
    /\ Finish

Sortino ==
    /\ pc = "call" /\ fn = "sortino"
    /\ ret' = sortino(args.rets, args.rf, args.periods_per_year)
    /\ Finish

MaxDrawdown ==
    /\ pc = "call" /\ fn = "max_drawdown"
    /\ ret' = max_drawdown(args.rets)
    /\ Finish

HitRate ==
    /\ pc = "call" /\ fn = "hit_rate"
    /\ ret' = hit_rate(args.rets)
    /\ Finish

VarHistorical ==
    /\ pc = "call" /\ fn = "var_historical"
    /\ ret' \in var_historical(args.rets, args.alpha)
    /\ Finish

CvarHistorical ==
    /\ pc = "call" /\ fn = "cvar_historical"
    /\ ret' \in cvar_historical(args.rets, args.alpha)
    /\ Finish

VarParametricNormal ==
    /\ pc = "call" /\ fn = "var_parametric_normal"
    /\ ret' = var_parametric_normal(args.rets, args.alpha)
    /\ Finish

VarCornishFisher ==
    /\ pc = "call" /\ fn = "var_cornish_fisher"
    /\ ret' = var_cornish_fisher(args.rets, args.alpha)
    /\ Finish

NormPpf ==
    /\ pc = "call" /\ fn = "_norm_ppf"
    /\ ret' = _norm_ppf(args.p)
    /\ Finish

Next ==
    \/ Allocate
    \/ Normalize
    \/ AnnualizeReturn
    \/ AnnualizeVol
    \/ Sharpe
    \/ Sortino
    \/ MaxDrawdown
    \/ HitRate
    \/ VarHistorical
    \/ CvarHistorical
    \/ VarParametricNormal
    \/ VarCornishFisher
    \/ NormPpf

Spec == Init /\ [][Next]_vars

-----------------------------------------------------------------------------
(* Properties of the portfolio allocator *)

Returned(f) == pc = "done" /\ fn = f

Periodic(rebalance) == rebalance # "None"

\* the weighted symbols that are columns of the return matrix
PresentSymbols(returns, weights) == DOMAIN weights \cap returns.columns

\* the dates of the index that fall in the same period as d
SamePeriod(index, rebalance, d) ==
    {t \in index : PeriodOf(_to_resample_rule(rebalance), t)
                     = PeriodOf(_to_resample_rule(rebalance), d)}

\* the compounded return of symbol c over the period that contains d
PeriodReturn(returns, rebalance, c, d) ==
    RSub(ProdOver([t \in returns.index |-> RAdd(One, returns.cell[t][c])],
                  SamePeriod(returns.index, rebalance, d)), One)

\* C1: under a periodic policy any two dates of the same period carry the
\* same output value, so the value changes only from the last date of one
\* period to the first date of the next.
C1_ConstantWithinPeriod ==
    (Returned("allocate_static") /\ Periodic(args.rebalance)) =>
        /\ \A d1, d2 \in DOMAIN ret :
              d2 \in SamePeriod(DOMAIN ret, args.rebalance, d1)
                  => ret[d1] = ret[d2]
        /\ \A d \in DOMAIN ret :
              (d + 1 \in DOMAIN ret /\ ret[d] # ret[d + 1])
                  => d + 1 \notin SamePeriod(DOMAIN ret, args.rebalance, d)

\* C2: under a periodic policy the value on every date d is the weighted
\* compounded return of d's own period: sum of w_i * (prod(1 + r_i,t) - 1)
\* over the days t of that period.
C2_OwnPeriodReturn ==
    (Returned("allocate_static") /\ Periodic(args.rebalance)
        /\ ~FrameEmpty(args.returns)
        /\ PresentSymbols(args.returns, args.weights) # {}) =>
        LET w == normalize_weights(args.weights)
            cols == PresentSymbols(args.returns, args.weights)
        IN  /\ DOMAIN ret = args.returns.index
            /\ \A d \in args.returns.index :
                  ret[d] = SumOver([c \in cols |->
                               RMul(w[c], PeriodReturn(args.returns,
                                                       args.rebalance, c, d))],
                               cols)

\* C3: the output is empty if and only if the return matrix is empty or no
\* symbol of the weight vector is a column of it.
C3_EmptyIff ==
    Returned("allocate_static") =>
        (DOMAIN ret = {} <=>
            (FrameEmpty(args.returns)
                \/ PresentSymbols(args.returns, args.weights) = {}))

\* C4: with rebalance=None and a single weighted symbol that is a column of
\* the matrix, the output is that symbol's return series: same dates, same
\* value on every date.
C4_SingleSymbolIdentity ==
    (Returned("allocate_static") /\ args.rebalance = "None"
        /\ Cardinality(DOMAIN args.weights) = 1
        /\ DOMAIN args.weights \subseteq args.returns.columns) =>
        LET s == CHOOSE c \in DOMAIN args.weights : TRUE
        IN  (args.weights[s] # Zero) =>
                /\ DOMAIN ret = args.returns.index
                /\ \A d \in DOMAIN ret : ret[d] = args.returns.cell[d][s]

\* C5: normalize_weights returns weights that sum to 1 when the raw sum is
\* non-zero and the all-zero vector when the raw sum is zero.
C5_NormalizedSum ==
    Returned("normalize_weights") =>
        IF SumOver(args.w, DOMAIN args.w) # Zero
        THEN SumOver(ret, DOMAIN ret) = One
        ELSE \A k \in DOMAIN ret : ret[k] = Zero

-----------------------------------------------------------------------------
(* Properties of the risk metrics *)

RiskFunctions ==
    {"annualize_return", "annualize_vol", "sharpe", "sortino",
     "max_drawdown", "hit_rate", "var_historical", "cvar_historical",
     "var_parametric_normal", "var_cornish_fisher"}

\* what risk function f can give back on the call a
RiskOutcomes(f, a) ==
    CASE f = "annualize_return" ->
             {annualize_return(a.rets, a.periods_per_year)}
      [] f = "annualize_vol" -> {annualize_vol(a.rets, a.periods_per_year)}
      [] f = "sharpe" -> {sharpe(a.rets, a.rf, a.periods_per_year)}
      [] f = "sortino" -> {sortino(a.rets, a.rf, a.periods_per_year)}
      [] f = "max_drawdown" -> {max_drawdown(a.rets)}
      [] f = "hit_rate" -> {hit_rate(a.rets)}
      [] f = "var_historical" -> var_historical(a.rets, a.alpha)
      [] f = "cvar_historical" -> cvar_historical(a.rets, a.alpha)
      [] f = "var_parametric_normal" ->
             {var_parametric_normal(a.rets, a.alpha)}
      [] f = "var_cornish_fisher" -> {var_cornish_fisher(a.rets, a.alpha)}

\* two outcomes are the same: the same exception, or the same number.  Two
\* values b1 ** (p/n1) - 1 and b2 ** (p/n2) - 1 with positive bases are the
\* same number exactly when b1 ** n2 = b2 ** n1.
SameOutcome(x, y) ==
    /\ x.raised = y.raised
    /\ \/ x.v = y.v
       \/ /\ "base" \in DOMAIN x.v /\ "base" \in DOMAIN y.v
          /\ RPow(x.v.base, y.v.root) = RPow(y.v.base, x.v.root)

\* C6: every risk metric drops missing values first: its result on a series
\* is its result on the same series with the missing entries removed.
C6_MissingDropped ==
    (pc = "done" /\ fn \in RiskFunctions) =>
        \E o \in RiskOutcomes(fn, [args EXCEPT !.rets = dropna(args.rets)]) :
            SameOutcome(ret, o)

\* C7: on an empty return series every risk function returns the undefined
\* sentinel and none raises.
C7_EmptyUndefined ==
    (pc = "done" /\ fn \in RiskFunctions /\ args.rets = <<>>) =>
        ret = Undefined

-----------------------------------------------------------------------------
(* Properties of the inverse-normal approximation *)

NegPpf(v) == [v EXCEPT !.sign = -v.sign]

Mirror(p) == RSub(One, p)

\* C9: the branch _norm_ppf takes: -inf for p <= 0, +inf for p >= 1, the
\* lower-tail polynomial in sqrt(-2 ln p) for 0 < p < 0.02425, the same
\* polynomial in sqrt(-2 ln(1-p)) negated for 0.97575 < p < 1, and the
\* central polynomial in q = p - 0.5 for 0.02425 <= p <= 0.97575.
C9_BranchStructure ==
    Returned("_norm_ppf") =>
        LET p == args.p
            lowEdge == Norm(2425, 100000)
            highEdge == Norm(97575, 100000)
            q == RSub(p, Norm(1, 2))
        IN  /\ RLe(p, Zero) => (ret.branch = "boundary" /\ ret.sign = -1)
            /\ RLe(One, p) => (ret.branch = "boundary" /\ ret.sign = 1)
            /\ (RLt(Zero, p) /\ RLt(p, lowEdge)) =>
                  (ret.branch = "tail" /\ ret.sign = 1 /\ ret.x = p)
            /\ (RLt(highEdge, p) /\ RLt(p, One)) =>
                  (ret.branch = "tail" /\ ret.sign = -1 /\ ret.x = Mirror(p))
            /\ (RLe(lowEdge, p) /\ RLe(p, highEdge)) =>
                  /\ ret.branch = "central"
                  /\ ret.sign = Sgn(q.n)
                  /\ ret.x = (IF RLt(q, Zero) THEN RNeg(q) ELSE q)

\* C9 witness: both thresholds themselves take the central branch
C9_Witness ==
    /\ Returned("_norm_ppf")
    /\ args.p \in {Norm(2425, 100000), Norm(97575, 100000)}
    /\ ret.branch = "central"

-----------------------------------------------------------------------------
(* Properties of the Cornish-Fisher VaR *)

\* C11: on a series whose sample skewness and sample excess kurtosis are both
\* 0, var_cornish_fisher returns what var_parametric_normal returns at the
\* same alpha: the same mean, the same population variance and z_cf = z.
C11_ReducesToNormal ==
    (/\ Returned("var_cornish_fisher")
     /\ skew(args.rets) = Zero
     /\ kurt(args.rets) = Zero) =>
        /\ ret = var_parametric_normal(args.rets, args.alpha)
        /\ ret.raised = "none"
        /\ ret.v.mu = Mean(args.rets)
        /\ ret.v.sigma2 = Var0(args.rets)
        /\ ret.v.z = _norm_ppf(RSub(One, args.alpha))
        /\ <<ret.v.c0, ret.v.c1, ret.v.c2, ret.v.c3>> = <<Zero, One, Zero, Zero>>

\* C11 witness: a series that is not constant (positive variance) with zero
\* skewness and zero excess kurtosis
C11_Witness ==
    /\ Returned("var_cornish_fisher")
    /\ skew(args.rets) = Zero
    /\ kurt(args.rets) = Zero
    /\ RLt(Zero, Var0(args.rets))
    /\ ret.v.sigma2 = Var0(args.rets)

-----------------------------------------------------------------------------
(* beta.py: rolling beta of an asset against a benchmark.  Both series are *)
(* sequences over the same dates.                                          *)

\* a rolling window gives a value once it holds min_periods observations
\* (min_periods is the window length when not given) and no missing entry
WindowFull(s, t, w, min_periods) ==
    /\ t >= min_periods
    /\ \A i \in 1..t : i > t - w => ~IsNaN(s[i])

\* sum of the products of the deviations from the window means
CoMoment(x, y) ==
    SeqSum([i \in 1..Len(x) |->
               RMul(RSub(x[i], Mean(x)), RSub(y[i], Mean(y)))])

\* Series.rolling(window).cov(other), ddof = 1: missing unless both series
\* are observed over the whole window; one observation gives 0 * inf = NaN
RollingCov(x, y, window, min_periods) ==
    [t \in 1..Len(x) |->
        IF WindowFull(x, t, window, min_periods)
               /\ WindowFull(y, t, window, min_periods)
        THEN LET lo == IF t > window THEN t - window + 1 ELSE 1
                 wx == SubSeq(x, lo, t)
                 wy == SubSeq(y, lo, t)
             IN  RDiv(CoMoment(wx, wy), Int2R(Len(wx) - 1))
        ELSE NaN]

\* Series.rolling(window).var(): sum of squared deviations over nobs - ddof,
\* missing when nobs <= ddof
RollingVar(y, window, min_periods, ddof) ==
    [t \in 1..Len(y) |->
        IF WindowFull(y, t, window, min_periods)
        THEN LET lo == IF t > window THEN t - window + 1 ELSE 1
                 wy == SubSeq(y, lo, t)
             IN  IF Len(wy) <= ddof THEN NaN
                 ELSE RDiv(CoMoment(wy, wy), Int2R(Len(wy) - ddof))
        ELSE NaN]

\* the ratio of two series, entry by entry
SeriesDiv(a, b) == [t \in 1..Len(a) |-> RDiv(a[t], b[t])]

\* rolling windows that report from their first observation on
rolling_beta_min_periods_1(asset_rets, bench_rets, window) ==
    Value(SeriesDiv(RollingCov(asset_rets, bench_rets, window, 1),
                    RollingVar(bench_rets, window, 1, 1)))

\* the benchmark variance taken over nobs instead of nobs - 1
rolling_beta_population_var(asset_rets, bench_rets, window) ==
    Value(SeriesDiv(RollingCov(asset_rets, bench_rets, window, window),
                    RollingVar(bench_rets, window, window, 0)))

rolling_beta(asset_rets, bench_rets, window) ==
    LET cov == RollingCov(asset_rets, bench_rets, window, window)
        var == RollingVar(bench_rets, window, window, 1)
    IN  Value(SeriesDiv(cov, var))

\* inputs: two series over the same dates, entries 0, 1 or missing
MaxBetaLen == 3
MaxWindow == 3
BetaVals == {Zero, One, NaN}

BetaCalls ==
    UNION {{[asset_rets |-> a, bench_rets |-> b, window |-> w] :
               a \in [1..n -> BetaVals], b \in [1..n -> BetaVals],
               w \in 1..MaxWindow} :
           n \in 0..MaxBetaLen}

BetaInit ==
    /\ pc = "call"
    /\ ret = Pending
    /\ fn = "rolling_beta"
    /\ args \in BetaCalls

RollingBeta ==
    /\ pc = "call" /\ fn = "rolling_beta"
    /\ ret' = rolling_beta(args.asset_rets, args.bench_rets, args.window)
    /\ Finish

BetaSpec == BetaInit /\ [][RollingBeta]_vars

\* the benchmark window that ends at t is observed in full and has variance 0
ZeroVariance(bench, t, w) ==
    /\ t >= w
    /\ \A i \in (t - w + 1)..t : bench[i] = bench[t] /\ ~IsNaN(bench[t])

VaryingWindow(series, t, w) ==
    /\ t >= w
    /\ \A i \in (t - w + 1)..t : ~IsNaN(series[i])
    /\ \E i \in (t - w + 1)..t : series[i] # series[t]

\* C13 as stated: on two identical series without missing entries
\* rolling_beta is 1 at every position from the first full window on,
\* windows over which the series is constant included.
C13_IdenticalIsOne ==
    (/\ Returned("rolling_beta")
     /\ args.asset_rets = args.bench_rets
     /\ dropna(args.bench_rets) = args.bench_rets) =>
        \A t \in DOMAIN ret.v : t >= args.window => ret.v[t] = One

\* C13 amended: on two identical series rolling_beta is 1 at every position
\* whose window is observed in full and is not constant, and undefined at
\* every other position (window not yet full, holding a missing entry, or
\* constant: zero variance, 0/0).
C13_IdenticalIsOneOrUndefined ==
    (Returned("rolling_beta") /\ args.asset_rets = args.bench_rets) =>
        /\ ret.raised = "none"
        /\ \A t \in DOMAIN ret.v :
              IF VaryingWindow(args.bench_rets, t, args.window)
              THEN ret.v[t] = One
              ELSE IsNaN(ret.v[t])

\* C13 witness: one result holds a 1 (varying window) and, after the window
\* has filled, an undefined entry over a constant window
C13_Witness ==
    /\ Returned("rolling_beta")
    /\ args.asset_rets = args.bench_rets
    /\ \E t \in DOMAIN ret.v : ret.v[t] = One
    /\ \E t \in DOMAIN ret.v :
          /\ ZeroVariance(args.bench_rets, t, args.window)
          /\ IsNaN(ret.v[t])

-----------------------------------------------------------------------------
(* factors.py: ordinary least squares of the portfolio series on a factor  *)
(* matrix.  A factor matrix is its dates (index), its column names in      *)
(* order (columns) and its cells; the portfolio series is a function of    *)
(* the date.                                                               *)

NoOverlap == "ValueError: No overlapping data between portfolio and factors."
NoDegreesOfFreedom == "ValueError: Not enough observations for regression."
SingularMatrix == "LinAlgError: Singular matrix"

\* pd.concat([y, factors], axis=1).dropna(): the dates of either input on
\* which y and every factor column are observed
JoinedRows(port_rets, factors) ==
    {d \in DOMAIN port_rets \cup factors.index :
        /\ d \in DOMAIN port_rets /\ ~IsNaN(port_rets[d])
        /\ \A j \in DOMAIN factors.columns :
              /\ d \in factors.index
              /\ ~IsNaN(factors.cell[d][factors.columns[j]])}

\* X: a column of ones, then the factor columns
DesignMatrix(factors, rows) ==
    [d \in rows |->
        [j \in 1..(Len(factors.columns) + 1) |->
            IF j = 1 THEN One ELSE factors.cell[d][factors.columns[j - 1]]]]

\* A.T @ B for matrices A, B with the same rows, ka and kb columns
TransposeTimes(A, B, rows, ka, kb) ==
    [i \in 1..ka |->
        [j \in 1..kb |->
            SumOver([d \in rows |-> RMul(A[d][i], B[d][j])], rows)]]

\* the k-1 by k-1 matrix left when row r and column c are struck out
Minor(M, k, r, c) ==
    [i \in 1..(k - 1) |->
        [j \in 1..(k - 1) |->
            M[IF i < r THEN i ELSE i + 1][IF j < c THEN j ELSE j + 1]]]

\* determinant of a k by k matrix, expanded along its first row
RECURSIVE Det(_, _)
Det(M, k) ==
    IF k = 0 THEN One
    ELSE SumOver([j \in 1..k |->
                     RMul(Int2R(IF j % 2 = 1 THEN 1 ELSE -1),
                          RMul(M[1][j], Det(Minor(M, k, 1, j), k - 1)))],
                 1..k)

\* np.linalg.inv of a matrix that is not singular: adjugate over determinant
Inverse(M, k) ==
    [i \in 1..k |->
        [j \in 1..k |->
            RDiv(RMul(Int2R(IF (i + j) % 2 = 0 THEN 1 ELSE -1),
                      Det(Minor(M, k, j, i), k - 1)),
                 Det(M, k))]]

\* the regression goes on when n - k > 0
enough_observations_nonnegative(n, k) == n - k >= 0

enough_observations(n, k) == n - k > 0

\* beta / se_beta with every non-finite quotient replaced by NaN; se is
\* kept as its square, the quotient as its signed square
TStat(beta, se2) ==
    IF se2 = Zero \/ ~IsFinite(se2) \/ ~IsFinite(beta) THEN NaN
    ELSE Surd(RDiv(SignedSquare(beta), se2))

factor_regression(port_rets, factors) ==
    LET rows == JoinedRows(port_rets, factors)
        n == Cardinality(rows)
        k == Len(factors.columns) + 1
        colnames == <<"const">> \o factors.columns
        X == DesignMatrix(factors, rows)
        y == [d \in rows |-> <<port_rets[d]>>]
        XtX == TransposeTimes(X, X, rows, k, k)
        Xty == TransposeTimes(X, y, rows, k, 1)
        XtX_inv == Inverse(XtX, k)
        beta == [i \in 1..k |->
                    SumOver([j \in 1..k |-> RMul(XtX_inv[i][j], Xty[j][1])],
                            1..k)]
        resid == [d \in rows |->
                     RSub(y[d][1],
                          SumOver([j \in 1..k |-> RMul(X[d][j], beta[j])],
                                  1..k))]
        ymean == RDiv(SumOver(port_rets, rows), Int2R(n))
        rss == SumOver([d \in rows |-> RMul(resid[d], resid[d])], rows)
        tss == SumOver([d \in rows |->
                           RMul(RSub(y[d][1], ymean), RSub(y[d][1], ymean))],
                       rows)
        r2 == IF RLt(Zero, tss) THEN RSub(One, RDiv(rss, tss)) ELSE NaN
        sigma2 == RDiv(rss, Int2R(n - k))
        se2 == [i \in 1..k |-> RMul(sigma2, XtX_inv[i][i])]
    IN  IF rows = {} THEN Raises(NoOverlap)
        ELSE IF ~enough_observations(n, k) THEN Raises(NoDegreesOfFreedom)
        ELSE IF Det(XtX, k) = Zero THEN Raises(SingularMatrix)
        ELSE Value([coef |-> [index |-> colnames, values |-> beta],
                    stderr |-> [index |-> colnames,
                                values |-> [i \in 1..k |-> Surd(se2[i])]],
                    tstat |-> [index |-> colnames,
                               values |-> [i \in 1..k |->
                                              TStat(beta[i], se2[i])]],
                    r2 |-> r2,
                    df_resid |-> n - k])

\* inputs: up to MaxObs dates; the portfolio series is 0, 1 or missing on
\* each, the factor matrix has one or two columns of 0s and 1s on some of
\* the dates
MaxObs == 3
RegVals == {Zero, One}
FactorColumns == {<<"F1">>, <<"F1", "F2">>}

FactorFrames ==
    UNION {{[index |-> S, columns |-> cs, cell |-> m] :
               m \in [S -> [{cs[j] : j \in DOMAIN cs} -> RegVals]]} :
           S \in SUBSET (1..MaxObs), cs \in FactorColumns}

RegressionCalls ==
    {[port_rets |-> y, factors |-> f] :
        y \in [1..MaxObs -> RegVals \cup {NaN}], f \in FactorFrames}

RegressionInit ==
    /\ pc = "call"
    /\ ret = Pending
    /\ fn = "factor_regression"
    /\ args \in RegressionCalls

FactorRegression ==
    /\ pc = "call" /\ fn = "factor_regression"
    /\ ret' = factor_regression(args.port_rets, args.factors)
    /\ Finish

RegressionSpec == RegressionInit /\ [][FactorRegression]_vars

\* the dates both inputs have on which the portfolio return and every factor
\* are observed
OverlappingRows(port_rets, factors) ==
    {d \in DOMAIN port_rets \cap factors.index :
        /\ ~IsNaN(port_rets[d])
        /\ \A c \in DOMAIN factors.cell[d] : ~IsNaN(factors.cell[d][c])}

Regressors(factors) == Len(factors.columns) + 1

\* C14: with n the number of overlapping fully observed rows and k the factor
\* count plus one, factor_regression raises the no-overlap error when n = 0
\* and the not-enough-observations error when 0 < n <= k, returning no record
\* in either case; a record it returns has df_resid = n - k > 0.
C14_NamedFailures ==
    Returned("factor_regression") =>
        LET n == Cardinality(OverlappingRows(args.port_rets, args.factors))
            k == Regressors(args.factors)
        IN  /\ n = 0 => ret = Raises(NoOverlap)
            /\ (0 < n /\ n <= k) => ret = Raises(NoDegreesOfFreedom)
            /\ ret.raised = "none" =>
                  (ret.v.df_resid = n - k /\ ret.v.df_resid > 0)

\* C14 witness: the portfolio is observed on more dates than the factor
\* matrix has, the join leaves exactly k rows, and the call fails for want
\* of degrees of freedom
C14_Witness ==
    /\ Returned("factor_regression")
    /\ Cardinality(OverlappingRows(args.port_rets, args.factors))
          = Regressors(args.factors)
    /\ Len(dropna(args.port_rets)) > Regressors(args.factors)
    /\ ret = Raises(NoDegreesOfFreedom)

\* C18: with more overlapping rows than regressors factor_regression always
\* returns a record: coef, stderr and tstat are indexed by const and the
\* factor names, no t-statistic is infinite, and R-squared is undefined
\* exactly when the total sum of squares is 0.
C18_OnlyTwoFailures ==
    (/\ Returned("factor_regression")
     /\ Cardinality(OverlappingRows(args.port_rets, args.factors))
           > Regressors(args.factors)) =>
        LET rows == OverlappingRows(args.port_rets, args.factors)
            names == <<"const">> \o args.factors.columns
        IN  /\ ret.raised = "none"
            /\ ret.v.coef.index = names
            /\ ret.v.stderr.index = names
            /\ ret.v.tstat.index = names
            /\ \A i \in DOMAIN ret.v.tstat.values :
                  \/ ret.v.tstat.values[i] = NaN
                  \/ IsFinite(ret.v.tstat.values[i].ssq)
            /\ IsNaN(ret.v.r2) <=>
                  \A d, e \in rows : args.port_rets[d] = args.port_rets[e]

-----------------------------------------------------------------------------
(* garch.py and the GARCH tab of app.py.  Whether the arch package was     *)
(* importable (_HAS_ARCH) and what the package does (fits, forecasts, or   *)
(* raises) are inputs.  The page is the list of what has been shown.       *)

ArchMissing == "ImportError: arch package not installed"

\* what arch_model(...).fit, res.forecast and res.summary may raise
ArchErrors == {"ValueError", "RuntimeError"}

\* fit_garch: the fitted model, or an error; model_built tells whether
\* arch_model was reached
fit_garch(has_arch, fit_error) ==
    IF ~has_arch
    THEN [raised |-> ArchMissing, v |-> "none", model_built |-> FALSE]
    ELSE IF fit_error # "none"
    THEN [raised |-> fit_error, v |-> "none", model_built |-> TRUE]
    ELSE [raised |-> "none", v |-> "res", model_built |-> TRUE]

\* forecast_vol: the path of daily volatilities, or an error
forecast_vol(res, forecast_error) ==
    IF forecast_error # "none"
    THEN [raised |-> forecast_error, v |-> "none"]
    ELSE [raised |-> "none", v |-> "daily_vol"]

\* an except clause that lets everything but the missing package through
catches_import_error_only(e) == e = ArchMissing

\* except Exception as e
catches(e) == e # "none"

Shown(kind, detail) == [kind |-> kind, detail |-> detail]

\* the block under "with tab5": what the page shows after it and the
\* exception that leaves it, if any
garch_tab(port_empty, has_arch, fit_error, forecast_error, summary_error, page) ==
    LET caption == Shown("caption", "Fit GARCH(1,1)")
        res_g == fit_garch(has_arch, fit_error)
        vols == forecast_vol(res_g.v, forecast_error)
        failure == IF res_g.raised # "none" THEN res_g.raised
                   ELSE vols.raised
    IN  IF port_empty
        THEN [raised |-> "none",
              page |-> page \o <<caption, Shown("info", "Portfolio is empty")>>]
        ELSE IF failure # "none"
        THEN IF catches(failure)
             THEN [raised |-> "none",
                   page |-> page \o <<caption,
                                      Shown("warning", "GARCH not available")>>]
             ELSE [raised |-> failure, page |-> page \o <<caption>>]
        ELSE [raised |-> "none",
              page |-> page \o <<caption, Shown("chart", vols.v)>>
                          \o (IF summary_error = "none"
                              THEN <<Shown("summary", res_g.v)>>
                              ELSE <<>>)]

\* what the earlier tabs have put on the page
EarlierTabs ==
    <<Shown("tab", "Performance"), Shown("tab", "Risk"),
      Shown("tab", "Beta"), Shown("tab", "Factors")>>

FitCalls ==
    {[has_arch |-> h, fit_error |-> e] :
        h \in BOOLEAN, e \in ArchErrors \cup {"none"}}

ForecastCalls ==
    {[res |-> "res", forecast_error |-> e] : e \in ArchErrors \cup {"none"}}

TabCalls ==
    {[port_empty |-> pe, has_arch |-> h, fit_error |-> fe,
      forecast_error |-> ve, summary_error |-> se,
      page |-> SubSeq(EarlierTabs, 1, m)] :
        pe \in BOOLEAN, h \in BOOLEAN, fe \in ArchErrors \cup {"none"},
        ve \in ArchErrors \cup {"none"}, se \in ArchErrors \cup {"none"},
        m \in 0..Len(EarlierTabs)}

GarchInit ==
    /\ pc = "call"
    /\ ret = Pending
    /\ \/ fn = "fit_garch" /\ args \in FitCalls
       \/ fn = "forecast_vol" /\ args \in ForecastCalls
       \/ fn = "garch_tab" /\ args \in TabCalls

FitGarch ==
    /\ pc = "call" /\ fn = "fit_garch"
    /\ ret' = fit_garch(args.has_arch, args.fit_error)
    /\ Finish

ForecastVol ==
    /\ pc = "call" /\ fn = "forecast_vol"
    /\ ret' = forecast_vol(args.res, args.forecast_error)
    /\ Finish

GarchTab ==
    /\ pc = "call" /\ fn = "garch_tab"
    /\ ret' = garch_tab(args.port_empty, args.has_arch, args.fit_error,
                        args.forecast_error, args.summary_error, args.page)
    /\ Finish

GarchNext ==
    \/ FitGarch
    \/ ForecastVol
    \/ GarchTab

GarchSpec == GarchInit /\ [][GarchNext]_vars

\* fit_garch or forecast_vol fails in this run of the tab
ForecasterFails(a) ==
    ~a.has_arch \/ a.fit_error # "none" \/ a.forecast_error # "none"

\* C15: without the arch package fit_garch raises its import error before a
\* model is built; when fit_garch or forecast_vol fails inside the GARCH tab
\* the tab ends without an exception, the page keeps everything shown before
\* and ends with the unavailable warning.
C15_UnavailableIsRecoverable ==
    /\ (Returned("fit_garch") /\ ~args.has_arch) =>
          (ret.raised = ArchMissing /\ ~ret.model_built)
    /\ (Returned("garch_tab") /\ ~args.port_empty /\ ForecasterFails(args)) =>
          /\ ret.raised = "none"
          /\ SubSeq(ret.page, 1, Len(args.page)) = args.page
          /\ ret.page[Len(ret.page)] = Shown("warning", "GARCH not available")

\* C15 witness: the package is installed, the fit succeeds, the forecast
\* raises, and the page with four tabs already shown ends with the warning
C15_Witness ==
    /\ Returned("garch_tab")
    /\ ~args.port_empty /\ args.has_arch /\ args.fit_error = "none"
    /\ args.forecast_error # "none"
    /\ Len(args.page) = Len(EarlierTabs)
    /\ ret.page = args.page \o <<Shown("caption", "Fit GARCH(1,1)"),
                                 Shown("warning", "GARCH not available")>>

-----------------------------------------------------------------------------
(* data.py: pct_returns.  A price matrix is a frame (index, columns, cell) *)
(* or absent (None); its rows are taken in date order.                     *)

AbsentFrame == [absent |-> TRUE]

\* pd.DataFrame()
EmptyFrame == [index |-> {}, columns |-> {}, cell |-> <<>>]

\* str.lower() on the method names in use
Lower(method) == IF method = "Log" THEN "log" ELSE method

\* the value of column c on the row before d, missing on the first row
Shift1(df, d, c) ==
    IF \E e \in df.index : e < d
    THEN df.cell[SetMax({e \in df.index : e < d})][c]
    ELSE NaN

\* DataFrame.ffill(): a missing cell takes the last observed value above it
FFill(df) ==
    [df EXCEPT !.cell =
        [d \in df.index |->
            [c \in df.columns |->
                LET seen == {e \in df.index :
                                e <= d /\ ~IsNaN(df.cell[e][c])}
                IN  IF seen = {} THEN NaN ELSE df.cell[SetMax(seen)][c]]]]

\* np.log(x) of a positive ratio, kept as its argument under a tag; the log
\* of a missing value is missing
Ln(x) == IF IsNaN(x) THEN NaN ELSE [ln |-> x]

\* np.log(prices / prices.shift(1))
LogReturns(df) ==
    [df EXCEPT !.cell =
        [d \in df.index |->
            [c \in df.columns |->
                Ln(RDiv(df.cell[d][c], Shift1(df, d, c)))]]]

\* DataFrame.pct_change(): prices / prices.shift(1) - 1, computed on the
\* forward-filled prices when fill_method is 'pad' (what the argument
\* defaults to depends on the pandas release: 'pad' before 3.0, None from
\* 3.0 on)
PctChangeFrame(df, fill_method) ==
    LET data == IF fill_method = "pad" THEN FFill(df) ELSE df
    IN  [df EXCEPT !.cell =
            [d \in df.index |->
                [c \in df.columns |->
                    RSub(RDiv(data.cell[d][c], Shift1(data, d, c)), One)]]]

\* DataFrame.dropna(how="all")
DropAllNA(df) ==
    LET keep == {d \in df.index : \E c \in df.columns : df.cell[d][c] # NaN}
    IN  [index |-> keep, columns |-> df.columns,
         cell |-> [d \in keep |-> df.cell[d]]]

\* fill_method is the default the installed pandas gives pct_change
pct_returns(prices, method, fill_method) ==
    IF prices = AbsentFrame THEN Value(EmptyFrame)
    ELSE IF FrameEmpty(prices) THEN Value(EmptyFrame)
    ELSE Value(DropAllNA(IF Lower(method) = "log"
                         THEN LogReturns(prices)
                         ELSE PctChangeFrame(prices, fill_method)))

\* inputs: up to MaxPriceRows dated rows of prices 1, 2 or missing
MaxPriceRows == 3
PriceVals == {One, Int2R(2), NaN}
Methods == {"log", "Log", "simple"}
FillDefaults == {"pad", "None"}

PriceFrames ==
    UNION {{[index |-> 1..n, columns |-> cs, cell |-> m] :
               m \in [1..n -> [cs -> PriceVals]]} :
           n \in 0..MaxPriceRows, cs \in SUBSET Symbols}

ReturnsCalls ==
    {[prices |-> f, method |-> m] :
        f \in PriceFrames \cup {AbsentFrame}, m \in Methods}

ReturnsInit ==
    /\ pc = "call"
    /\ ret = Pending
    /\ fn = "pct_returns"
    /\ args \in ReturnsCalls

PctReturns ==
    /\ pc = "call" /\ fn = "pct_returns"
    /\ ret' \in {pct_returns(args.prices, args.method, f) : f \in FillDefaults}
    /\ Finish

ReturnsSpec == ReturnsInit /\ [][PctReturns]_vars

\* the return of column c at row d is missing in the output: the row was
\* dropped or the cell is NaN
MissingReturn(out, d, c) == d \notin out.index \/ out.cell[d][c] = NaN

\* the matrix has rows and columns and no missing cell
GapFree(prices) ==
    /\ prices # AbsentFrame
    /\ ~FrameEmpty(prices)
    /\ \A d \in prices.index : \A c \in prices.columns :
          prices.cell[d][c] # NaN

\* C16: under either method the return of a symbol at a date is missing
\* whenever its price at that date or at the previous date is missing; the
\* rows kept are those with a return in some column (a gap-free matrix of n
\* rows gives n - 1 rows); an absent or empty matrix gives an empty frame;
\* nothing is raised.
C16_NoForwardFill ==
    Returned("pct_returns") =>
        /\ ret.raised = "none"
        /\ IF args.prices = AbsentFrame THEN ret.v = EmptyFrame
           ELSE IF FrameEmpty(args.prices) THEN ret.v = EmptyFrame
           ELSE /\ \A d \in args.prices.index : \A c \in args.prices.columns :
                      (\/ args.prices.cell[d][c] = NaN
                       \/ Shift1(args.prices, d, c) = NaN) =>
                          MissingReturn(ret.v, d, c)
                /\ \A d \in ret.v.index :
                      \E c \in args.prices.columns : ret.v.cell[d][c] # NaN
                /\ \A d \in args.prices.index \ ret.v.index :
                      \A c \in args.prices.columns :
                          \/ args.prices.cell[d][c] = NaN
                          \/ Shift1(args.prices, d, c) = NaN
                /\ GapFree(args.prices) =>
                      Cardinality(ret.v.index)
                          = Cardinality(args.prices.index) - 1

-----------------------------------------------------------------------------
(* Weights of symbols that are not in the return matrix *)

\* w.loc[cols]: the weights allocate_static multiplies the columns by
EffectiveWeights(returns, weights) ==
    LET w == normalize_weights(weights)
    IN  [c \in PresentSymbols(returns, weights) |-> w[c]]

\* the dates whose output value is the value of their own period: the
\* dates that are the label of their period
LabelDates(index, rebalance) ==
    {d \in index :
        d = PeriodLabel(_to_resample_rule(rebalance),
                        PeriodOf(_to_resample_rule(rebalance), d))}

\* C17: when some weighted symbol is not a column of the return matrix and
\* the weights of the symbols that are have a non-zero sum, the weights
\* applied to the present symbols sum to 1; so under a periodic policy, when
\* every present symbol has the same compounded return x over a period, the
\* portfolio value of that period is x.
C17_PresentWeightsSumToOne ==
    (/\ Returned("allocate_static") /\ Periodic(args.rebalance)
     /\ ~FrameEmpty(args.returns)
     /\ DOMAIN args.weights \ args.returns.columns # {}
     /\ PresentSymbols(args.returns, args.weights) # {}
     /\ SumOver(args.weights, PresentSymbols(args.returns, args.weights))
           # Zero) =>
        LET cols == PresentSymbols(args.returns, args.weights)
            eff == EffectiveWeights(args.returns, args.weights)
        IN  /\ SumOver(eff, cols) = One
            /\ \A d \in LabelDates(args.returns.index, args.rebalance) :
                  \A x \in {PeriodReturn(args.returns, args.rebalance, c, d) :
                               c \in cols} :
                      (\A c \in cols :
                          PeriodReturn(args.returns, args.rebalance, c, d) = x)
                          => ret[d] = x

-----------------------------------------------------------------------------
(* data.py: get_prices, one step per supplier call.  While the call runs,  *)
(* ret holds its locals: the tickers still to fetch (todo, the current one *)
(* first), the series s of the current ticker ("empty" or "data"), the     *)
(* supplier calls made for it (log), the Yahoo download attempts made      *)
(* (attempts), the columns collected (out) and the exception that left the *)
(* function (raised).  What a supplier answers is an input of each step.   *)

\* a supplier call gives data, gives nothing, or fails with an exception
SupplierResults == {"data", "empty", "error"}

\* dict.fromkeys(tickers): the tickers without repetitions, in order of
\* first appearance
RECURSIVE Distinct(_)
Distinct(seq) ==
    IF seq = <<>> THEN <<>>
    ELSE <<Head(seq)>>
            \o Distinct(SelectSeq(Tail(seq), LAMBDA t : t # Head(seq)))

\* an exception of a supplier call is caught: inside _stooq_fetch_one and
\* _alpha_fetch_one, and by the try blocks around the Yahoo calls
caught_before_history(supplier) == supplier # "yahoo_history"

caught(supplier) == TRUE

\* s after a supplier call: the helper's series, or the old s when the call
\* raised inside a try block of get_prices
SeriesAfter(supplier, s, result) ==
    IF result = "data" THEN "data"
    ELSE IF result = "error" /\ supplier \in {"yahoo_download", "yahoo_history"}
    THEN s
    ELSE "empty"

\* for _ in range(retries + 1): the loop body runs at least once when
\* retries >= 0
yahoo_entry(retries) ==
    IF retries + 1 > 0 THEN "yahoo_download" ELSE "yahoo_history"

\* the step that starts a ticker
first_stage(provider, retries) ==
    IF provider = "Stooq" THEN "stooq"
    ELSE IF provider = "Alpha" THEN "alpha"
    ELSE IF provider = "Yahoo" THEN yahoo_entry(retries)
    ELSE "stooq"

after_stooq(provider, s) ==
    IF provider = "Stooq" THEN "append"
    ELSE IF s = "empty" THEN "alpha" ELSE "append"

after_alpha(provider, s, interval, retries) ==
    IF provider = "Alpha" THEN "append"
    ELSE IF s = "empty" /\ interval # "1d" THEN "alpha_daily"
    ELSE IF s = "empty" THEN yahoo_entry(retries)
    ELSE "append"

after_alpha_daily(s, retries) ==
    IF s = "empty" THEN yahoo_entry(retries) ELSE "append"

\* a download loop without the break: every attempt is made
after_yahoo_download_no_break(s, attempts, retries) ==
    IF attempts < retries + 1 THEN "yahoo_download"
    ELSE IF s = "empty" THEN "yahoo_history"
    ELSE "append"

\* break on a non-empty series, else the next attempt, else the history call
after_yahoo_download(s, attempts, retries) ==
    IF s # "empty" THEN "append"
    ELSE IF attempts < retries + 1 THEN "yahoo_download"
    ELSE "yahoo_history"

\* the locals at the start of a ticker's iteration
StartTicker(out, todo) ==
    [out |-> out, todo |-> todo, s |-> "empty", log |-> <<>>,
     attempts |-> 0, raised |-> "none"]

\* the locals after a call of supplier that answered result
Contacted(locals, supplier, result) ==
    [locals EXCEPT
        !.s = SeriesAfter(supplier, locals.s, result),
        !.log = Append(locals.log, [supplier |-> supplier, result |-> result]),
        !.attempts = IF supplier = "yahoo_download" THEN @ + 1 ELSE @,
        !.raised = IF result = "error" /\ ~caught(supplier)
                   THEN "Exception" ELSE "none"]

\* where the call goes after a supplier call: out of the function when the
\* exception was not caught
Proceed(locals, stage) == IF locals.raised # "none" THEN "raised" ELSE stage

\* inputs
MaxTickers == 2
MaxRetries == 1
TickerNames == {"X", "Y"}
Intervals == {"1d", "1wk"}
Providers == {"Auto", "Stooq", "Alpha", "Yahoo"}

FetchCalls ==
    {[tickers |-> t, retries |-> r, interval |-> i, provider |-> p] :
        t \in UNION {[1..n -> TickerNames] : n \in 0..MaxTickers},
        r \in 0..MaxRetries, i \in Intervals, p \in Providers}

FetchInit ==
    /\ pc = "call"
    /\ ret = Pending
    /\ fn = "get_prices"
    /\ args \in FetchCalls

\* out = []; the loop starts, or there is no ticker
EnterGetPrices ==
    /\ pc = "call" /\ fn = "get_prices"
    /\ ret' = StartTicker(<<>>, Distinct(args.tickers))
    /\ pc' = IF Distinct(args.tickers) = <<>> THEN "done"
             ELSE first_stage(args.provider, args.retries)
    /\ UNCHANGED <<fn, args>>

ContactStooq ==
    /\ pc = "stooq"
    /\ \E result \in SupplierResults :
          /\ ret' = Contacted(ret, "stooq", result)
          /\ pc' = Proceed(ret', after_stooq(args.provider, ret'.s))
    /\ UNCHANGED <<fn, args>>

ContactAlpha ==
    /\ pc = "alpha"
    /\ \E result \in SupplierResults :
          /\ ret' = Contacted(ret, "alpha", result)
          /\ pc' = Proceed(ret', after_alpha(args.provider, ret'.s,
                                              args.interval, args.retries))
    /\ UNCHANGED <<fn, args>>

ContactAlphaDaily ==
    /\ pc = "alpha_daily"
    /\ \E result \in SupplierResults :
          /\ ret' = Contacted(ret, "alpha", result)
          /\ pc' = Proceed(ret', after_alpha_daily(ret'.s, args.retries))
    /\ UNCHANGED <<fn, args>>

ContactYahooDownload ==
    /\ pc = "yahoo_download"
    /\ \E result \in SupplierResults :
          /\ ret' = Contacted(ret, "yahoo_download", result)
          /\ pc' = Proceed(ret', after_yahoo_download(ret'.s, ret'.attempts,
                                                       args.retries))
    /\ UNCHANGED <<fn, args>>

ContactYahooHistory ==
    /\ pc = "yahoo_history"
    /\ \E result \in SupplierResults :
          /\ ret' = Contacted(ret, "yahoo_history", result)
          /\ pc' = Proceed(ret', "append")
    /\ UNCHANGED <<fn, args>>

\* out.append(s), then the next ticker or the end of the loop
AppendSeries ==
    /\ pc = "append"
    /\ LET column == [name |-> Head(ret.todo), empty |-> ret.s = "empty"]
           rest == Tail(ret.todo)
       IN  IF rest = <<>>
           THEN /\ ret' = [ret EXCEPT !.out = Append(@, column), !.todo = rest]
                /\ pc' = "done"
           ELSE /\ ret' = StartTicker(Append(ret.out, column), rest)
                /\ pc' = first_stage(args.provider, args.retries)
    /\ UNCHANGED <<fn, args>>

FetchNext ==
    \/ EnterGetPrices
    \/ ContactStooq
    \/ ContactAlpha
    \/ ContactAlphaDaily
    \/ ContactYahooDownload
    \/ ContactYahooHistory
    \/ AppendSeries

FetchSpec == FetchInit /\ [][FetchNext]_vars

\* the place of a supplier in the Auto order
SupplierRank(supplier) ==
    IF supplier = "stooq" THEN 1
    ELSE IF supplier = "alpha" THEN 2
    ELSE IF supplier = "yahoo_download" THEN 3
    ELSE 4

\* get_prices is running, or has ended, under the Auto provider
AutoFetch == fn = "get_prices" /\ pc # "call" /\ args.provider = "Auto"

\* C19: under the Auto provider the supplier calls made for a ticker start
\* with Stooq and go on in the order Stooq, Alpha Vantage, Yahoo download,
\* Yahoo history; a call is made only after every earlier call for the
\* ticker gave no data, so the calls stop at the first non-empty result; the
\* Yahoo download is called at most retries + 1 times; no exception of a
\* supplier leaves get_prices, and the ticker's column is empty exactly when
\* no call gave data.
C19_FallbackOrder ==
    AutoFetch =>
        /\ pc # "raised" /\ ret.raised = "none"
        /\ \A i \in DOMAIN ret.log :
              /\ i = 1 => ret.log[i].supplier = "stooq"
              /\ i > 1 =>
                    /\ ret.log[i - 1].result # "data"
                    /\ SupplierRank(ret.log[i].supplier)
                          \in {SupplierRank(ret.log[i - 1].supplier),
                               SupplierRank(ret.log[i - 1].supplier) + 1}
                    /\ ret.log[i].supplier = ret.log[i - 1].supplier =>
                          ret.log[i].supplier \in {"alpha", "yahoo_download"}
        /\ Len(SelectSeq(ret.log, LAMBDA c : c.supplier = "yahoo_download"))
              <= args.retries + 1
        /\ pc = "append" =>
              (ret.s = "empty" <=>
                  \A i \in DOMAIN ret.log : ret.log[i].result # "data")
        /\ \A j \in DOMAIN ret.out :
              ret.out[j].name = Distinct(args.tickers)[j]

\* C19 witness: the second of two tickers is at its end with an empty
\* column after Stooq, Alpha Vantage, retries + 1 >= 2 Yahoo downloads and
\* the Yahoo history were all called, every Yahoo call raising
C19_Witness ==
    /\ AutoFetch /\ pc = "append"
    /\ Len(ret.out) = 1
    /\ args.retries >= 1
    /\ ret.s = "empty"
    /\ Len(ret.log) = args.retries + 4
    /\ ret.log[Len(ret.log)] = [supplier |-> "yahoo_history", result |-> "error"]
    /\ \A i \in DOMAIN ret.log :
          SupplierRank(ret.log[i].supplier) >= 3 => ret.log[i].result = "error"

=============================================================================
